---- MODULE Spec2Model ----
(***************************************************************************)
(* Kai Keeper (src/src/storage.js): the KaiKeeperApp component as a state  *)
(* machine.  The state is the three React collections (plantTypes,         *)
(* plantings, harvests), the two pieces of form state the handlers read    *)
(* (newPlanting.plantTypeId, harvestTarget), and the persistence gateway   *)
(* (localforage): the stored value of each key, the saves in flight and    *)
(* the startup loads still pending.                                        *)
(*                                                                         *)
(* Conventions                                                             *)
(*  - an id is a positive integer (uid() never repeats); 0 stands for the  *)
(*    empty string "" of an id field;                                      *)
(*  - an ISO date is the number of its day (day 1 = the first day the      *)
(*    model knows); 0 stands for the empty string "" of a date field;      *)
(*  - an optional value (null or v) is the sequence <<>> or <<v>>;         *)
(*  - a half-integer (germAvg) is carried as twice its value;              *)
(*  - one action is one event-loop task: the handler, React's batched      *)
(*    re-render and the useEffect flush that follows it.                   *)
(***************************************************************************)
EXTENDS Integers, Sequences, FiniteSets, TLC

VARIABLES
  plantTypes,        \* useState(DEFAULT_PLANT_TYPES)            line 197
  plantings,         \* useState([])                             line 198
  harvests,          \* useState([])                             line 199
  isDefaultRef,      \* plantTypes is the DEFAULT_PLANT_TYPES object itself
  newPlantingTypeId, \* newPlanting.plantTypeId                  line 220
  harvestTarget,     \* harvestTarget (the planting's id), <<>> = null, line 232
  today,             \* the day todayISO() returns
  nextId,            \* the next value uid() returns
  store,             \* localforage: key -> <<>> (absent) or <<value>>
  pending,           \* localforage: the setItem calls not yet applied, oldest first
  loadPending,       \* the keys whose startup getItem has not resolved
  notice,            \* the last alert() text of importJSON
  lastFile,          \* the text of the last file handed to importJSON, <<>> = none
  download,          \* the text of the last exported backup file, <<>> = none
  importedRepeatedIds,  \* an accepted import brought a payload that repeats an id
  storeAtStart,      \* localforage as it was when the application started
  lastOp,            \* the last handler that ran: [op, id]
  ops                \* number of user events handled so far

vars == <<plantTypes, plantings, harvests, isDefaultRef, newPlantingTypeId,
          harvestTarget, today, nextId, store, pending, loadPending,
          notice, lastFile, download, importedRepeatedIds, storeAtStart,
          lastOp, ops>>

----------------------------------------------------------------------------
(* Bounds of the model *)

\* user events (clicks, submissions, file imports) in one session
MaxOps == 2
\* how many entries of DEFAULT_PLANT_TYPES the model carries
NumDefaults == 2
\* the largest number of days typed into a timing input of the catalogue
MaxTiming == 2
\* the most days that pass after the planting date
MaxElapsed == 3
\* significant bits of a Number (of a harvest amount or a total)
SigBits == 3

----------------------------------------------------------------------------
(* Data model: lines 59-106 *)

Keys == {"plantTypes", "plantings", "harvests"}

NoId == 0
NoDate == 0

\* The first dates of the calendar the model uses.
Day1 == 1

mkPlantType(id, name, gmin, gmax, mat, hw, unit) ==
  [id |-> id, name |-> name, germinationMinDays |-> gmin,
   germinationMaxDays |-> gmax, maturityDays |-> mat,
   harvestWindowDays |-> hw, defaultUnit |-> unit]

\* { id: uid(), archived: false, ...newPlanting }; the free-text fields keep
\* the values the form starts with.
mkPlanting(id, typeId, plantedAt) ==
  [id |-> id, archived |-> FALSE, plantTypeId |-> typeId,
   plantedAt |-> plantedAt, location |-> "", quantityPlanted |-> 1,
   notes |-> ""]

\* { id: uid(), plantingId, amount: Number(amount), unit, date, notes }
mkHarvest(id, plantingId, amount, unit, date) ==
  [id |-> id, plantingId |-> plantingId, amount |-> amount, unit |-> unit,
   date |-> date, notes |-> ""]

\* The rows of DEFAULT_PLANT_TYPES, without their ids.
DefaultRows ==
  << <<"Kumara (Sweet Potato)", 10, 20, 140, 21, "kg">>,
     <<"Potato", 14, 21, 100, 28, "kg">>,
     <<"Lettuce", 7, 14, 50, 21, "count">>,
     <<"Tomato", 6, 14, 85, 35, "kg">>,
     <<"Broccoli", 7, 14, 70, 14, "count">>,
     <<"Silverbeet (Chard)", 7, 14, 55, 45, "kg">>,
     <<"Corn (Sweet)", 7, 10, 85, 14, "count">>,
     <<"Beans (Bush)", 7, 14, 55, 21, "kg">>,
     <<"Carrot", 14, 21, 80, 21, "kg">>,
     <<"Capsicum (Pepper)", 10, 21, 110, 35, "kg">> >>

\* The catalogue rows with ids base+1 .. base+NumDefaults.
DefaultsFrom(base) ==
  [i \in 1..NumDefaults |->
     mkPlantType(base + i, DefaultRows[i][1], DefaultRows[i][2],
                 DefaultRows[i][3], DefaultRows[i][4], DefaultRows[i][5],
                 DefaultRows[i][6])]

\* Evaluated once, when the module loads: ids 1 .. NumDefaults.
DEFAULT_PLANT_TYPES == DefaultsFrom(0)

----------------------------------------------------------------------------
(* Sequence helpers *)

Ids(s) == {s[i].id : i \in 1..Len(s)}

\* No id occurs twice in the three lists taken together.
DistinctIds(pt, pl, hv) ==
  LET all == pt \o pl \o hv
  IN  \A i, j \in 1..Len(all) : i # j => all[i].id # all[j].id

Collection(k) ==
  CASE k = "plantTypes" -> plantTypes
    [] k = "plantings"  -> plantings
    [] k = "harvests"   -> harvests

----------------------------------------------------------------------------
(* JavaScript values as JSON.parse returns them.  Only what importJSON     *)
(* looks at is kept: which kind of value it is, and an array's items.      *)

JsUndefined == [t |-> "undefined", items |-> <<>>]  \* the key is absent
JsNull      == [t |-> "null",      items |-> <<>>]
JsFalse     == [t |-> "false",     items |-> <<>>]
JsZero      == [t |-> "zero",      items |-> <<>>]
JsEmptyStr  == [t |-> "emptystr",  items |-> <<>>]
JsString    == [t |-> "string",    items |-> <<>>]  \* a non-empty string
JsArray(s)  == [t |-> "array",     items |-> s]

\* A ToBoolean that takes the empty array for falsy.
Truthy_EmptyArrayFalsy(v) ==
  /\ v.t \notin {"undefined", "null", "false", "zero", "emptystr"}
  /\ (v.t = "array" => v.items # <<>>)

\* ToBoolean, as the && of line 346 applies it: undefined, null, false, 0
\* and "" are falsy; every array (the empty one too) and every non-empty
\* string is truthy.
Truthy(v) == v.t \notin {"undefined", "null", "false", "zero", "emptystr"}

\* The text of a file.  A text that is not JSON makes JSON.parse throw; one
\* that is JSON parses to null, to a value without the three properties
\* (an array, a number, a string), or to an object.
mkText(wellFormed, top, pt, pl, hv, at) ==
  [wellFormed |-> wellFormed, top |-> top, plantTypes |-> pt,
   plantings |-> pl, harvests |-> hv, exportedAt |-> at]

GarbageText == mkText(FALSE, "none", JsUndefined, JsUndefined, JsUndefined, JsUndefined)
NullText    == mkText(TRUE, "null", JsUndefined, JsUndefined, JsUndefined, JsUndefined)
ArrayText   == mkText(TRUE, "array", JsUndefined, JsUndefined, JsUndefined, JsUndefined)

\* JSON.stringify of an array of entities.  Every field of an entity is a
\* string, a finite number or a boolean, which JSON carries unchanged, and
\* the items keep their order.
ToJson(arr) == JsArray([i \in 1..Len(arr) |-> arr[i]])

\* A serialiser that leaves an empty collection out of the object.
JSONstringify_SkipsEmpty(pt, pl, hv) ==
  mkText(TRUE, "object",
         IF pt = <<>> THEN JsUndefined ELSE ToJson(pt),
         IF pl = <<>> THEN JsUndefined ELSE ToJson(pl),
         IF hv = <<>> THEN JsUndefined ELSE ToJson(hv), JsString)

\* JSON.stringify({ plantTypes, plantings, harvests, exportedAt }, null, 2)
JSONstringify(pt, pl, hv) ==
  mkText(TRUE, "object", ToJson(pt), ToJson(pl), ToJson(hv), JsString)

\* JSON.parse(text) throws a SyntaxError
ParseThrows(text) == ~text.wellFormed

\* JSON.parse(text), for a text that parses
JSONparse(text) ==
  [top |-> text.top, plantTypes |-> text.plantTypes,
   plantings |-> text.plantings, harvests |-> text.harvests,
   exportedAt |-> text.exportedAt]

\* data.plantTypes throws a TypeError when data is null
AccessThrows(data) == data.top = "null"

\* A check that forgets the harvests.
ImportCheck_TwoKeys(data) ==
  (data.plantTypes.t \notin {"undefined", "null", "false", "zero", "emptystr"})
  /\ (data.plantings.t \notin {"undefined", "null", "false", "zero", "emptystr"})

\* data.plantTypes && data.plantings && data.harvests
ImportCheck(data) ==
  Truthy(data.plantTypes) /\ Truthy(data.plantings) /\ Truthy(data.harvests)

\* What importJSON does with a text: "failed" (the catch branch), "invalid"
\* (the else branch) or "ok" (the three setters run).
ImportOutcome(text) ==
  IF ParseThrows(text) THEN "failed"
  ELSE IF AccessThrows(JSONparse(text)) THEN "failed"
  ELSE IF ImportCheck(JSONparse(text)) THEN "ok"
  ELSE "invalid"

NoticeOf(outcome) ==
  CASE outcome = "ok"      -> "Import successful"
    [] outcome = "invalid" -> "Invalid backup file"
    [] outcome = "failed"  -> "Import failed"

----------------------------------------------------------------------------
(* Date helpers and the phase estimator: lines 126-137, 217, 255-286 *)

\* Math.floor((b - a) / 86400000) of two date-only ISO strings (UTC
\* midnights): the difference of their day numbers.
daysBetween(fromISO, toISODate) == toISODate - fromISO

MaxOf(a, b) == IF a >= b THEN a ELSE b

\* A lookup that falls back to the first catalogue entry.
plantTypeById_FirstFallback(catalogue, id) ==
  LET idx == {i \in 1..Len(catalogue) : catalogue[i].id = id}
  IN  IF idx = {} THEN (IF catalogue = <<>> THEN <<>> ELSE <<catalogue[1]>>)
      ELSE <<catalogue[CHOOSE i \in idx : \A j \in idx : j <= i]>>

\* plantTypeById[id]: Object.fromEntries keeps the last entry of an id.
\* <<>> when no entry has the id (the lookup is undefined).
plantTypeById(catalogue, id) ==
  LET idx == {i \in 1..Len(catalogue) : catalogue[i].id = id}
  IN  IF idx = {} THEN <<>>
      ELSE <<catalogue[CHOOSE i \in idx : \A j \in idx : j <= i]>>

\* A percentage as JavaScript computes it: NaN, or the fraction n/d (d > 0).
NaN == [nan |-> TRUE, n |-> 0, d |-> 1]
Num(n, d) == [nan |-> FALSE, n |-> n, d |-> d]

\* clamp((num / den) * 100, 0, 100) = Math.min(100, Math.max(0, v)).
\* 0/0 is NaN, and Math.max and Math.min return NaN for NaN; x/0 is
\* +Infinity or -Infinity by the sign of x.
clamp(num, den) ==
  IF den = 0
    THEN IF num = 0 THEN NaN
         ELSE IF num > 0 THEN Num(100, 1) ELSE Num(0, 1)
    ELSE LET n == IF den > 0 THEN 100 * num ELSE -100 * num
             d == IF den > 0 THEN den ELSE -den
         IN  IF n <= 0 THEN Num(0, 1)
             ELSE IF n >= 100 * d THEN Num(100, 1)
             ELSE Num(n, d)

\* An estimator whose growth bar starts with the germination bar.
phaseAt_Overlapping(catalogue, planting, now) ==
  LET found == plantTypeById(catalogue, planting.plantTypeId) IN
  IF found = <<>> THEN <<>>
  ELSE
    LET pt == found[1]
        elapsed == MaxOf(0, daysBetween(planting.plantedAt, now))
        g1x2 == pt.germinationMinDays + pt.germinationMaxDays
        g2x2 == MaxOf(2, 2 * pt.maturityDays - g1x2)
        g3x2 == 2 * MaxOf(1, pt.harvestWindowDays)
        totalx2 == g1x2 + g2x2 + g3x2
    IN << [germinationPct |-> clamp(2 * elapsed, g1x2),
           growthPct      |-> clamp(2 * elapsed, g1x2 + g2x2),
           harvestPct     |-> clamp(2 * elapsed - g1x2 - g2x2, g3x2),
           done           |-> 2 * elapsed > totalx2,
           elapsed        |-> elapsed,
           totalx2        |-> totalx2] >>

\* phaseFor(planting) over the catalogue of the current render, with
\* todayISO() = now; <<>> is null.  Lengths are carried doubled:
\* g1x2 = 2 * germAvg = germinationMinDays + germinationMaxDays.
phaseAt(catalogue, planting, now) ==
  LET found == plantTypeById(catalogue, planting.plantTypeId) IN
  IF found = <<>> THEN <<>>
  ELSE
    LET pt == found[1]
        elapsed == MaxOf(0, daysBetween(planting.plantedAt, now))
        g1x2 == pt.germinationMinDays + pt.germinationMaxDays
        g2x2 == MaxOf(2, 2 * pt.maturityDays - g1x2)
        g3x2 == 2 * MaxOf(1, pt.harvestWindowDays)
        totalx2 == g1x2 + g2x2 + g3x2
    IN << [germinationPct |-> clamp(2 * elapsed, g1x2),
           growthPct      |-> clamp(2 * elapsed - g1x2, g2x2),
           harvestPct     |-> clamp(2 * elapsed - g1x2 - g2x2, g3x2),
           done           |-> 2 * elapsed > totalx2,
           elapsed        |-> elapsed,
           totalx2        |-> totalx2] >>

phaseFor(planting) == phaseAt(plantTypes, planting, today)

----------------------------------------------------------------------------
(* Reports: lines 289-320.  An amount is a Number; the model carries a     *)
(* Number as an integer count of the smallest amount it knows, and an      *)
(* addition rounds its result to SigBits significant bits the way the      *)
(* addition of doubles rounds to 53 bits (to nearest, ties to even).       *)

RECURSIVE Scale(_, _)
\* The power of two q (from q up) in whose multiples m has at most SigBits
\* significant bits.
Scale(m, q) == IF m \div q < 2^SigBits THEN q ELSE Scale(m, 2 * q)

\* The Number nearest to the non-negative real m, ties to the even one.
RoundNat(m) ==
  LET q    == Scale(m, 1)
      down == (m \div q) * q
      r    == m - down
  IN  IF 2 * r < q THEN down
      ELSE IF 2 * r > q THEN down + q
      ELSE IF (m \div q) % 2 = 0 THEN down ELSE down + q

\* a + b of two Numbers
fadd(a, b) == IF a + b >= 0 THEN RoundNat(a + b) ELSE -RoundNat(-(a + b))

\* Days of the year up to the end of each month (of a year of 365 days).
MonthEnds == <<31, 59, 90, 120, 151, 181, 212, 243, 273, 304, 334, 365>>

\* monthKey(iso) = iso.slice(0, 7), as a number that orders as the strings
\* "YYYY-MM" do: 12 * year + month, day 1 being 1 January of year 0; the
\* key of the empty string is the empty string, which sorts first (0).
monthKey(iso) ==
  IF iso = NoDate THEN 0
  ELSE LET doy == ((iso - 1) % 365) + 1
           m   == CHOOSE i \in 1..12 :
                    doy <= MonthEnds[i] /\ (i > 1 => doy > MonthEnds[i - 1])
       IN  12 * ((iso - 1) \div 365) + m

\* harvestsByUnit[unit]
harvestsByUnit(unit) == SelectSeq(harvests, LAMBDA h : h.unit = unit)

RECURSIVE MonthSum_LastOnly(_, _)
\* A loop that stores the amount instead of adding it.
MonthSum_LastOnly(subset, k) ==
  IF subset = <<>> THEN 0
  ELSE LET before == MonthSum_LastOnly(SubSeq(subset, 1, Len(subset) - 1), k)
           h      == subset[Len(subset)]
       IN  IF monthKey(h.date) = k THEN h.amount ELSE before

RECURSIVE MonthSum(_, _)
\* map.get(k) after the loop of lines 299-302 over subset
MonthSum(subset, k) ==
  IF subset = <<>> THEN 0
  ELSE LET before == MonthSum(SubSeq(subset, 1, Len(subset) - 1), k)
           h      == subset[Len(subset)]
       IN  IF monthKey(h.date) = k THEN fadd(before, h.amount) ELSE before

RECURSIVE Ascending(_)
\* The numbers of the set S as an ascending sequence.
Ascending(S) ==
  IF S = {} THEN <<>>
  ELSE LET least == CHOOSE x \in S : \A y \in S : x <= y
       IN  <<least>> \o Ascending(S \ {least})

\* monthlyTotals(subset)
monthlyTotals(subset) ==
  LET keys == Ascending({monthKey(subset[i].date) : i \in 1..Len(subset)})
  IN  [i \in 1..Len(keys) |-> [month |-> keys[i], total |-> MonthSum(subset, keys[i])]]

\* A find that passes over archived plantings.
findPlanting_ActiveOnly(registry, id) ==
  LET idx == {i \in 1..Len(registry) : registry[i].id = id /\ ~registry[i].archived}
  IN  IF idx = {} THEN <<>>
      ELSE <<registry[CHOOSE i \in idx : \A j \in idx : i <= j]>>

\* plantings.find((p) => p.id === id): <<>> or <<the first planting of the id>>
findPlanting(registry, id) ==
  LET idx == {i \in 1..Len(registry) : registry[i].id = id}
  IN  IF idx = {} THEN <<>>
      ELSE <<registry[CHOOSE i \in idx : \A j \in idx : i <= j]>>

\* A key that counts the harvest of a missing planting under "Unknown".
TypeKey_DanglingUnknown(catalogue, registry, h) ==
  LET planting == findPlanting(registry, h.plantingId)
  IN  IF planting = <<>> THEN <<"Unknown">>
      ELSE LET pt == plantTypeById(catalogue, planting[1].plantTypeId)
           IN  IF pt = <<>> \/ pt[1].name = "" THEN <<"Unknown">> ELSE <<pt[1].name>>

\* The key under which totalsByPlantType counts harvest h: <<>> when its
\* planting is not found (continue), else <<pt?.name || "Unknown">>.
TypeKey(catalogue, registry, h) ==
  LET planting == findPlanting(registry, h.plantingId)
  IN  IF planting = <<>> THEN <<>>
      ELSE LET pt == plantTypeById(catalogue, planting[1].plantTypeId)
           IN  IF pt = <<>> \/ pt[1].name = "" THEN <<"Unknown">> ELSE <<pt[1].name>>

RECURSIVE TypeKeys(_, _, _)
\* The keys of the Map of line 309 after the loop, in insertion order.
TypeKeys(catalogue, registry, subset) ==
  IF subset = <<>> THEN <<>>
  ELSE LET before == TypeKeys(catalogue, registry, SubSeq(subset, 1, Len(subset) - 1))
           key    == TypeKey(catalogue, registry, subset[Len(subset)])
       IN  IF key = <<>> \/ (\E i \in 1..Len(before) : before[i] = key[1])
             THEN before
             ELSE Append(before, key[1])

RECURSIVE TypeSum(_, _, _, _)
\* map.get(name) after the loop of lines 310-316 over subset
TypeSum(catalogue, registry, subset, name) ==
  IF subset = <<>> THEN 0
  ELSE LET before == TypeSum(catalogue, registry, SubSeq(subset, 1, Len(subset) - 1), name)
           h      == subset[Len(subset)]
       IN  IF TypeKey(catalogue, registry, h) = <<name>>
             THEN fadd(before, h.amount) ELSE before

RECURSIVE SortDescending(_)
\* .sort((a, b) => b[1] - a[1]): descending by total; the sort is stable,
\* so entries of equal total keep their order.
SortDescending(entries) ==
  IF entries = <<>> THEN <<>>
  ELSE LET sorted == SortDescending(SubSeq(entries, 1, Len(entries) - 1))
           e      == entries[Len(entries)]
           n      == Cardinality({i \in 1..Len(sorted) : sorted[i].total >= e.total})
       IN  SubSeq(sorted, 1, n) \o <<e>> \o SubSeq(sorted, n + 1, Len(sorted))

\* totalsByPlantType(subset) over the given catalogue and registry
totalsBy(catalogue, registry, subset) ==
  LET keys == TypeKeys(catalogue, registry, subset)
  IN  SortDescending([i \in 1..Len(keys) |->
        [name |-> keys[i], total |-> TypeSum(catalogue, registry, subset, keys[i])]])

\* totalsByPlantType(subset) in the current render
totalsByPlantType(subset) == totalsBy(plantTypes, plantings, subset)

----------------------------------------------------------------------------
(* The persistence gateway: lines 5-9, and the effects of lines 205-213 *)

\* save(key, value) = localforage.setItem(key, value): the write joins the
\* queue of calls localforage has not served yet.
save(q, key, value) == Append(q, [key |-> key, value |-> value])

\* Effects that save what the collections held before the render.
SaveEffects_Stale(changed, pt, pl, hv) ==
  LET q1 == IF "plantTypes" \in changed THEN save(pending, "plantTypes", plantTypes) ELSE pending
      q2 == IF "plantings" \in changed THEN save(q1, "plantings", plantings) ELSE q1
      q3 == IF "harvests" \in changed THEN save(q2, "harvests", harvests) ELSE q2
  IN  q3

\* The useEffect of lines 211-213 after a render in which the setters of
\* the keys in `changed` installed a new array: one save per changed key,
\* carrying the value just rendered.
SaveEffects(changed, pt, pl, hv) ==
  LET q1 == IF "plantTypes" \in changed THEN save(pending, "plantTypes", pt) ELSE pending
      q2 == IF "plantings" \in changed THEN save(q1, "plantings", pl) ELSE q1
      q3 == IF "harvests" \in changed THEN save(q2, "harvests", hv) ELSE q2
  IN  q3

\* One re-render: the new collections and the saves its effects issue.
Commit(changed, pt, pl, hv) ==
  /\ plantTypes' = pt
  /\ plantings' = pl
  /\ harvests' = hv
  /\ pending' = SaveEffects(changed, pt, pl, hv)

\* No setter ran: nothing re-renders, no effect runs.
NoCommit == UNCHANGED <<plantTypes, plantings, harvests, pending, isDefaultRef>>

\* A uid() that returns the value it returned before.
NextUid_Repeats(n) == n

\* uid(): the value it returns after having returned n.  It never returns
\* a value twice.
NextUid(n) == n + 1

\* A user event: counted, and remembered as the last handler that ran.
Event(op, id) ==
  /\ ops < MaxOps
  /\ ops' = ops + 1
  /\ lastOp' = [op |-> op, id |-> id]
  /\ UNCHANGED storeAtStart

\* A gateway that may apply a setItem before the startup getItem calls
\* have read.
SaveComplete_Unordered ==
  /\ pending # <<>>
  /\ store' = [store EXCEPT ![Head(pending).key] = <<Head(pending).value>>]
  /\ pending' = Tail(pending)
  /\ UNCHANGED <<plantTypes, plantings, harvests, isDefaultRef,
                 newPlantingTypeId, harvestTarget, today, nextId,
                 loadPending, notice, lastFile, download, importedRepeatedIds,
                 storeAtStart, lastOp, ops>>

\* localforage serves the oldest queued setItem.  It serves the calls in
\* the order they were made (one database, one object store), so the three
\* getItem calls the mount issued (lines 206-208 run before lines 211-213)
\* are served before any setItem.
SaveComplete ==
  /\ pending # <<>>
  /\ loadPending = {}
  /\ store' = [store EXCEPT ![Head(pending).key] = <<Head(pending).value>>]
  /\ pending' = Tail(pending)
  /\ UNCHANGED <<plantTypes, plantings, harvests, isDefaultRef,
                 newPlantingTypeId, harvestTarget, today, nextId,
                 loadPending, notice, lastFile, download, importedRepeatedIds,
                 storeAtStart, lastOp, ops>>

\* load(key, fallback): v ?? fallback
load(k, fallback) == IF store[k] = <<>> THEN fallback ELSE store[k][1]

\* load("plantTypes", DEFAULT_PLANT_TYPES).then(setPlantTypes).  A stored
\* value is a fresh array; the fallback is the DEFAULT_PLANT_TYPES object,
\* and setting the state to the object it already holds re-renders nothing.
LoadPlantTypes ==
  /\ "plantTypes" \in loadPending
  /\ loadPending' = loadPending \ {"plantTypes"}
  /\ IF store["plantTypes"] = <<>> /\ isDefaultRef
       THEN NoCommit
       ELSE /\ Commit({"plantTypes"}, load("plantTypes", DEFAULT_PLANT_TYPES),
                      plantings, harvests)
            /\ isDefaultRef' = (store["plantTypes"] = <<>>)
  /\ lastOp' = [op |-> "load", id |-> NoId]
  /\ UNCHANGED <<newPlantingTypeId, harvestTarget, today, nextId, store,
                 notice, lastFile, download, importedRepeatedIds, storeAtStart, ops>>

\* load("plantings", []).then(setPlantings): the fallback [] is a new array.
\* The getItem calls resolve in the order they were made.
LoadPlantings ==
  /\ "plantings" \in loadPending
  /\ "plantTypes" \notin loadPending
  /\ loadPending' = loadPending \ {"plantings"}
  /\ Commit({"plantings"}, plantTypes, load("plantings", <<>>), harvests)
  /\ lastOp' = [op |-> "load", id |-> NoId]
  /\ UNCHANGED <<isDefaultRef, newPlantingTypeId, harvestTarget, today,
                 nextId, store, notice, lastFile, download, importedRepeatedIds, storeAtStart, ops>>

\* load("harvests", []).then(setHarvests)
LoadHarvests ==
  /\ "harvests" \in loadPending
  /\ "plantings" \notin loadPending
  /\ loadPending' = loadPending \ {"harvests"}
  /\ Commit({"harvests"}, plantTypes, plantings, load("harvests", <<>>))
  /\ lastOp' = [op |-> "load", id |-> NoId]
  /\ UNCHANGED <<isDefaultRef, newPlantingTypeId, harvestTarget, today,
                 nextId, store, notice, lastFile, download, importedRepeatedIds, storeAtStart, ops>>

----------------------------------------------------------------------------
(* Plantings and harvests: lines 220-252 *)

\* line 224: if (!newPlanting.plantTypeId || !newPlanting.plantedAt) return;
PlantingAccepted(typeId, plantedAt) == typeId # NoId /\ plantedAt # NoDate

\* plantTypes[0]?.id || ""
FirstTypeId == IF plantTypes = <<>> THEN NoId ELSE plantTypes[1].id

\* An updater that puts the new entry last.
Prepend_AtEnd(entry, arr) == arr \o <<entry>>

\* (arr) => [planting, ...arr]  and  (arr) => [entry, ...arr]
Prepend(entry, arr) == <<entry>> \o arr

\* addPlanting, submitted with the form's plantedAt field holding `plantedAt`
addPlanting(plantedAt) ==
  /\ IF PlantingAccepted(newPlantingTypeId, plantedAt)
       THEN /\ Event("addPlanting", nextId)
            /\ Commit({"plantings"}, plantTypes,
                      Prepend(mkPlanting(nextId, newPlantingTypeId, plantedAt), plantings),
                      harvests)
            /\ newPlantingTypeId' = FirstTypeId
            /\ nextId' = NextUid(nextId)
            /\ UNCHANGED isDefaultRef
       ELSE /\ Event("addPlanting", NoId)
            /\ NoCommit
            /\ UNCHANGED <<newPlantingTypeId, nextId>>
  /\ UNCHANGED <<harvestTarget, today, store, loadPending, notice, lastFile, download, importedRepeatedIds>>

\* The Plant type <select> of the form: one option per catalogue entry.
selectPlantType(id) ==
  /\ id \in Ids(plantTypes)
  /\ Event("selectPlantType", id)
  /\ newPlantingTypeId' = id
  /\ NoCommit
  /\ UNCHANGED <<harvestTarget, today, nextId, store, loadPending, notice, lastFile, download, importedRepeatedIds>>

\* openHarvest(planting): the Harvest button of a planting's card
openHarvest(id) ==
  /\ id \in Ids(plantings)
  /\ Event("openHarvest", id)
  /\ harvestTarget' = <<id>>
  /\ NoCommit
  /\ UNCHANGED <<newPlantingTypeId, today, nextId, store, loadPending, notice, lastFile, download, importedRepeatedIds>>

\* A guard that only rejects a missing amount.
AmountAccepted_NonZero(amount) == ~(amount = 0)

\* line 243: if (!amount || amount <= 0) return;
AmountAccepted(amount) == ~(amount = 0) /\ ~(amount <= 0)

\* logHarvest, with harvestInput holding amount, unit and date
logHarvest(amount, unit, date) ==
  /\ IF harvestTarget # <<>> /\ AmountAccepted(amount)
       THEN /\ Event("logHarvest", nextId)
            /\ Commit({"harvests"}, plantTypes, plantings,
                      Prepend(mkHarvest(nextId, harvestTarget[1], amount, unit, date), harvests))
            /\ harvestTarget' = <<>>
            /\ nextId' = NextUid(nextId)
            /\ UNCHANGED isDefaultRef
       ELSE /\ Event("logHarvest", NoId)
            /\ NoCommit
            /\ UNCHANGED <<harvestTarget, nextId>>
  /\ UNCHANGED <<newPlantingTypeId, today, store, loadPending, notice, lastFile, download, importedRepeatedIds>>

\* (arr) => arr.filter((p) => p.id !== id)
WithoutId(arr, id) == SelectSeq(arr, LAMBDA e : e.id # id)

\* A delete that takes the planting's harvests with it.
deletePlanting_Cascade(id) ==
  /\ id \in Ids(plantings)
  /\ Event("deletePlanting", id)
  /\ Commit({"plantings", "harvests"}, plantTypes, WithoutId(plantings, id),
            SelectSeq(harvests, LAMBDA h : h.plantingId # id))
  /\ UNCHANGED <<isDefaultRef, newPlantingTypeId, harvestTarget, today, nextId,
                 store, loadPending, notice, lastFile, download, importedRepeatedIds>>

deletePlanting(id) ==
  /\ id \in Ids(plantings)
  /\ Event("deletePlanting", id)
  /\ Commit({"plantings"}, plantTypes, WithoutId(plantings, id), harvests)
  /\ UNCHANGED <<isDefaultRef, newPlantingTypeId, harvestTarget, today, nextId,
                 store, loadPending, notice, lastFile, download, importedRepeatedIds>>

deleteHarvest(id) ==
  /\ id \in Ids(harvests)
  /\ Event("deleteHarvest", id)
  /\ Commit({"harvests"}, plantTypes, plantings, WithoutId(harvests, id))
  /\ UNCHANGED <<isDefaultRef, newPlantingTypeId, harvestTarget, today, nextId,
                 store, loadPending, notice, lastFile, download, importedRepeatedIds>>

\* (arr) => arr.map((p) => (p.id === id ? { ...p, archived: !p.archived } : p))
Toggled(arr, id) ==
  [i \in 1..Len(arr) |->
     IF arr[i].id = id THEN [arr[i] EXCEPT !.archived = ~@] ELSE arr[i]]

toggleArchive(id) ==
  /\ id \in Ids(plantings)
  /\ Event("toggleArchive", id)
  /\ Commit({"plantings"}, plantTypes, Toggled(plantings, id), harvests)
  /\ UNCHANGED <<isDefaultRef, newPlantingTypeId, harvestTarget, today, nextId,
                 store, loadPending, notice, lastFile, download, importedRepeatedIds>>

----------------------------------------------------------------------------
(* The catalogue: lines 359-362 and 622-634 *)

\* The name typed in the Add Plant Type form; "" stands for a blank name.
DraftNames == {"", "Kawakawa"}

\* addType with draft.name = name and the draft's initial timing values
addType(name) ==
  /\ IF name # ""
       THEN /\ Event("addType", nextId)
            /\ Commit({"plantTypes"},
                      Prepend(mkPlantType(nextId, name, 7, 14, 60, 21, "kg"), plantTypes),
                      plantings, harvests)
            /\ isDefaultRef' = FALSE
            /\ nextId' = NextUid(nextId)
       ELSE /\ Event("addType", NoId)
            /\ NoCommit
            /\ UNCHANGED nextId
  /\ UNCHANGED <<newPlantingTypeId, harvestTarget, today, store, loadPending,
                 notice, lastFile, download, importedRepeatedIds>>

TimingFields == {"germinationMinDays", "germinationMaxDays", "maturityDays",
                 "harvestWindowDays"}

\* (arr) => arr.map((p) => (p.id === id ? { ...p, ...patch } : p)), for a
\* patch of one timing field
Patched(arr, id, field, value) ==
  [i \in 1..Len(arr) |->
     IF arr[i].id = id THEN [arr[i] EXCEPT ![field] = value] ELSE arr[i]]

\* updateType(id, { [field]: Number(e.target.value || 0) })
updateType(id, field, value) ==
  /\ id \in Ids(plantTypes)
  /\ Event("updateType", id)
  /\ Commit({"plantTypes"}, Patched(plantTypes, id, field, value), plantings, harvests)
  /\ isDefaultRef' = FALSE
  /\ UNCHANGED <<newPlantingTypeId, harvestTarget, today, nextId, store,
                 loadPending, notice, lastFile, download, importedRepeatedIds>>

removeType(id) ==
  /\ id \in Ids(plantTypes)
  /\ Event("removeType", id)
  /\ Commit({"plantTypes"}, WithoutId(plantTypes, id), plantings, harvests)
  /\ isDefaultRef' = FALSE
  /\ UNCHANGED <<newPlantingTypeId, harvestTarget, today, nextId, store,
                 loadPending, notice, lastFile, download, importedRepeatedIds>>

\* resetToDefaults; `confirmed` is the answer to confirm()
resetToDefaults(confirmed) ==
  /\ IF confirmed
       THEN /\ Event("resetToDefaults", nextId)
            /\ Commit({"plantTypes"}, DefaultsFrom(nextId - 1), plantings, harvests)
            /\ isDefaultRef' = FALSE
            /\ nextId' = nextId + NumDefaults
       ELSE /\ Event("resetToDefaults", NoId)
            /\ NoCommit
            /\ UNCHANGED nextId
  /\ UNCHANGED <<newPlantingTypeId, harvestTarget, today, store, loadPending,
                 notice, lastFile, download, importedRepeatedIds>>

----------------------------------------------------------------------------
(* Export and import: lines 323-357 *)

exportJSON ==
  /\ Event("exportJSON", NoId)
  /\ download' = <<JSONstringify(plantTypes, plantings, harvests)>>
  /\ NoCommit
  /\ UNCHANGED <<newPlantingTypeId, harvestTarget, today, nextId, store,
                 loadPending, notice, lastFile, importedRepeatedIds>>

\* An import that merges the file's array into the current one.
Imported_Merge(data, k) == data[k].items \o Collection(k)

\* setPlantTypes(data.plantTypes), setPlantings(data.plantings),
\* setHarvests(data.harvests): the state of key k becomes the file's array.
Imported(data, k) == data[k].items

\* importJSON(file), file.text() being `text`.  The three setters run in
\* one task and React renders them as one update.
importJSON(text) ==
  /\ Event("importJSON", NoId)
  /\ notice' = NoticeOf(ImportOutcome(text))
  /\ lastFile' = <<text>>
  /\ importedRepeatedIds' =
       \/ importedRepeatedIds
       \/ /\ ImportOutcome(text) = "ok"
          /\ ~DistinctIds(Imported(JSONparse(text), "plantTypes"),
                          Imported(JSONparse(text), "plantings"),
                          Imported(JSONparse(text), "harvests"))
  /\ IF ImportOutcome(text) = "ok"
       THEN /\ Commit(Keys, Imported(JSONparse(text), "plantTypes"),
                      Imported(JSONparse(text), "plantings"),
                      Imported(JSONparse(text), "harvests"))
            /\ isDefaultRef' = FALSE
       ELSE NoCommit
  /\ UNCHANGED <<newPlantingTypeId, harvestTarget, today, nextId, store,
                 loadPending, download>>

----------------------------------------------------------------------------
(* Inputs of the model *)

\* What an earlier session left in the store, and what a backup file holds:
\* one plant type, one planting of it, one harvest of that planting.
OldType     == mkPlantType(91, "Tomato", 6, 14, 85, 35, "kg")
OldPlanting == mkPlanting(92, 91, Day1)
OldHarvest  == mkHarvest(93, 92, 2, "kg", Day1)

EmptyStore == [k \in Keys |-> <<>>]
OldStore ==
  [k \in Keys |-> CASE k = "plantTypes" -> << <<OldType>> >>
                    [] k = "plantings"  -> << <<OldPlanting>> >>
                    [] k = "harvests"   -> << <<OldHarvest>> >>]

\* The store of an earlier session in which every entry was deleted.
ClearedStore == [k \in Keys |-> << <<>> >>]

InitialStores == {EmptyStore, OldStore, ClearedStore}

\* The values a backup file may hold under one key, `sample` being a
\* non-empty list: the key is absent, or it holds a falsy value, the empty
\* array or the sample.
FalsyValues == {JsUndefined, JsNull, JsFalse, JsZero, JsEmptyStr}
ValueChoices(sample) == FalsyValues \cup {JsArray(<<>>), JsArray(sample)}

\* A backup whose planting list holds the id 92 twice and whose harvest has
\* the id of the plant type.
DuplicateText ==
  mkText(TRUE, "object", JsArray(<<OldType>>),
         JsArray(<<OldPlanting, [OldPlanting EXCEPT !.archived = TRUE]>>),
         JsArray(<<[OldHarvest EXCEPT !.id = 91]>>), JsString)

\* The files the user imports: texts that do not parse or parse to no
\* object, a backup with every choice of value under harvests, and backups
\* with a missing or null plantings or plantTypes.
Files ==
  {GarbageText, NullText, ArrayText, DuplicateText}
  \cup {mkText(TRUE, "object", JsArray(<<OldType>>), JsArray(<<OldPlanting>>), v, JsString) :
          v \in ValueChoices(<<OldHarvest>>)}
  \cup {mkText(TRUE, "object", JsArray(<<>>), v, JsArray(<<>>), JsUndefined) :
          v \in {JsUndefined, JsNull, JsArray(<<>>)}}
  \cup {mkText(TRUE, "object", v, JsArray(<<>>), JsArray(<<>>), JsUndefined) :
          v \in {JsUndefined, JsZero}}

PlantedAtInputs == {NoDate, Day1}
AmountInputs == {-1, 0, 2}
Units == {"kg", "count"}
\* The catalogue inputs the application's specification edits, and the
\* value typed into them.
EditFields == {"germinationMinDays"}
EditValues == {0}
Today0 == Day1 + 15

----------------------------------------------------------------------------
(* The application *)

\* After the first render and its effects: the three loads are issued, then
\* the three saves of the initial values.
Init ==
  /\ plantTypes = DEFAULT_PLANT_TYPES
  /\ plantings = <<>>
  /\ harvests = <<>>
  /\ isDefaultRef = TRUE
  /\ newPlantingTypeId = DEFAULT_PLANT_TYPES[1].id
  /\ harvestTarget = <<>>
  /\ today = Today0
  /\ nextId = NumDefaults + 1
  /\ store \in InitialStores
  /\ pending = save(save(save(<<>>, "plantTypes", DEFAULT_PLANT_TYPES),
                         "plantings", <<>>), "harvests", <<>>)
  /\ loadPending = Keys
  /\ notice = ""
  /\ lastFile = <<>>
  /\ importedRepeatedIds = FALSE
  /\ download = <<>>
  /\ lastOp = [op |-> "mount", id |-> NoId]
  /\ ops = 0
  /\ storeAtStart = store

Next ==
  \/ LoadPlantTypes
  \/ LoadPlantings
  \/ LoadHarvests
  \/ SaveComplete
  \/ \E d \in PlantedAtInputs : addPlanting(d)
  \/ \E id \in Ids(plantTypes) : selectPlantType(id)
  \/ \E id \in Ids(plantings) : openHarvest(id)
  \/ \E a \in AmountInputs, u \in Units : logHarvest(a, u, Day1)
  \/ \E id \in Ids(plantings) : deletePlanting(id)
  \/ \E id \in Ids(harvests) : deleteHarvest(id)
  \/ \E id \in Ids(plantings) : toggleArchive(id)
  \/ \E n \in DraftNames : addType(n)
  \/ \E id \in Ids(plantTypes), f \in EditFields, v \in EditValues : updateType(id, f, v)
  \/ \E id \in Ids(plantTypes) : removeType(id)
  \/ \E c \in BOOLEAN : resetToDefaults(c)
  \/ exportJSON
  \/ \E t \in Files \cup {download[i] : i \in 1..Len(download)} : importJSON(t)

Spec == Init /\ [][Next]_vars

----------------------------------------------------------------------------
(* The phase estimate over the catalogue's timing inputs: a session that   *)
(* finds one plant type and one planting of it, planted today, in the      *)
(* store; the user edits the four timing inputs of the type while the      *)
(* days pass.                                                              *)

\* What the inputs Germ min and Germ max (min={0}) take
GermValues == 0..MaxTiming
\* What the inputs Maturity and Harvest window (min={1}) take
LengthValues == 1..MaxTiming

\* The session once its three loads and the saves they caused are done.
\* The stored type has positive timing values.
InitPhase ==
  /\ \E gmin \in LengthValues, gmax \in LengthValues,
        mat \in LengthValues, hw \in LengthValues :
       plantTypes = <<mkPlantType(OldType.id, OldType.name, gmin, gmax, mat, hw, "kg")>>
  /\ plantings = <<OldPlanting>>
  /\ harvests = <<>>
  /\ isDefaultRef = FALSE
  /\ newPlantingTypeId = DEFAULT_PLANT_TYPES[1].id
  /\ harvestTarget = <<>>
  /\ today = OldPlanting.plantedAt
  /\ nextId = NumDefaults + 1
  /\ store = [k \in Keys |-> <<Collection(k)>>]
  /\ pending = <<>>
  /\ loadPending = {}
  /\ notice = ""
  /\ lastFile = <<>>
  /\ importedRepeatedIds = FALSE
  /\ download = <<>>
  /\ lastOp = [op |-> "load", id |-> NoId]
  /\ ops = 0
  /\ storeAtStart = store

\* A day passes: todayISO() returns the next date from now on.
Tick ==
  /\ today < OldPlanting.plantedAt + MaxElapsed
  /\ today' = today + 1
  /\ UNCHANGED <<plantTypes, plantings, harvests, isDefaultRef, newPlantingTypeId,
                 harvestTarget, nextId, store, pending, loadPending, notice,
                 lastFile, download, importedRepeatedIds, storeAtStart, lastOp, ops>>

NextPhase ==
  \/ Tick
  \/ SaveComplete
  \/ \E id \in Ids(plantTypes), f \in {"germinationMinDays", "germinationMaxDays"},
        v \in GermValues : updateType(id, f, v)
  \/ \E id \in Ids(plantTypes), f \in {"maturityDays", "harvestWindowDays"},
        v \in LengthValues : updateType(id, f, v)

SpecPhase == InitPhase /\ [][NextPhase]_vars

----------------------------------------------------------------------------
(* The reports over a ledger: a session that finds two plant types, three  *)
(* plantings (one of a type that was removed) and up to two harvests in    *)
(* the store; the user adds, deletes and archives plantings, logs and      *)
(* deletes harvests and removes plant types.                               *)

BasilType       == mkPlantType(94, "Basil", 5, 10, 40, 30, "count")
BasilPlanting   == mkPlanting(95, BasilType.id, Day1)
\* A planting whose plant type (id 97) was removed from the catalogue.
UnknownPlanting == mkPlanting(96, 97, Day1)

\* A day of January and a day of February
HarvestDates == {Day1, Day1 + 40}
\* Amounts typed into the Amount input
ReportAmounts == {1, 5}

\* The older stored harvest: of the tomato planting or of a planting that
\* was deleted (id 99).
StoredFirst ==
  {mkHarvest(OldHarvest.id, pid, a, u, d) :
     pid \in {OldPlanting.id, 99}, a \in {4, 5}, u \in Units, d \in HarvestDates}

\* The newer stored harvest: of the tomato planting or of the planting of
\* the removed type, logged in February or with the date input cleared.
StoredSecond ==
  {mkHarvest(98, pid, 5, "kg", d) :
     pid \in {OldPlanting.id, UnknownPlanting.id}, d \in {NoDate, Day1 + 40}}

StoredLedgers ==
  {<<>>} \cup {<<h>> : h \in StoredFirst}
         \cup {<<h2, h1>> : h2 \in StoredSecond, h1 \in StoredFirst}

\* The session once its three loads and the saves they caused are done.
InitReports ==
  /\ plantTypes = <<BasilType, OldType>>
  /\ plantings = <<UnknownPlanting, BasilPlanting, OldPlanting>>
  /\ harvests \in StoredLedgers
  /\ isDefaultRef = FALSE
  /\ newPlantingTypeId = DEFAULT_PLANT_TYPES[1].id
  /\ harvestTarget = <<>>
  /\ today = Today0
  /\ nextId = NumDefaults + 1
  /\ store = [k \in Keys |-> <<Collection(k)>>]
  /\ pending = <<>>
  /\ loadPending = {}
  /\ notice = ""
  /\ lastFile = <<>>
  /\ importedRepeatedIds = FALSE
  /\ download = <<>>
  /\ lastOp = [op |-> "load", id |-> NoId]
  /\ ops = 0
  /\ storeAtStart = store

NextReports ==
  \/ SaveComplete
  \/ \E id \in Ids(plantings) : openHarvest(id)
  \/ \E a \in ReportAmounts, u \in Units, d \in HarvestDates : logHarvest(a, u, d)
  \/ \E id \in Ids(harvests) : deleteHarvest(id)
  \/ \E id \in Ids(plantings) : deletePlanting(id)
  \/ \E id \in Ids(plantings) : toggleArchive(id)
  \/ \E id \in Ids(plantTypes) : removeType(id)
  \/ \E d \in PlantedAtInputs : addPlanting(d)

SpecReports == InitReports /\ [][NextReports]_vars

----------------------------------------------------------------------------
(* Properties *)

Success == "Import successful"

\* The step is a run of importJSON.
ImportStep == ops' = ops + 1 /\ lastOp'.op = "importJSON"

\* The text does not parse, or what it parses to lacks one of the three
\* top-level fields.
LacksField(text) ==
  \/ ~text.wellFormed
  \/ text.top # "object"
  \/ \E k \in Keys : text[k].t = "undefined"

\* C1: an import of a payload that does not parse or lacks one of
\* plantTypes, plantings, harvests is rejected, and it leaves the three
\* collections, the saves in flight and the stored values as they were.
C1_RejectedImportChangesNothing ==
  [][(ImportStep /\ LacksField(lastFile'[1]))
       => /\ notice' # Success
          /\ UNCHANGED <<plantTypes, plantings, harvests, pending, store>>]_vars

\* A payload without the harvests key has just been rejected while the
\* collections held the data of the earlier session.
C1_Witness ==
  /\ lastOp.op = "importJSON"
  /\ lastFile # <<>>
  /\ lastFile[1].top = "object"
  /\ lastFile[1].harvests.t = "undefined"
  /\ lastFile[1].plantTypes.t = "array"
  /\ lastFile[1].plantings.t = "array"
  /\ notice = "Invalid backup file"
  /\ plantings = <<OldPlanting>>
  /\ harvests = <<OldHarvest>>

\* The payload is a JSON object that has the three keys.
HasKeys(text) ==
  /\ text.wellFormed
  /\ text.top = "object"
  /\ \A k \in Keys : text[k].t # "undefined"

\* C2 as stated: an import is accepted if and only if the payload is a JSON
\* object that has the three keys, whatever their values.
C2_PresenceOnly ==
  lastOp.op = "importJSON" => (notice = Success <=> HasKeys(lastFile[1]))

\* The payload is a JSON object whose three keys hold a value other than
\* null, false, 0 and "".
HasUsableValues(text) ==
  /\ HasKeys(text)
  /\ \A k \in Keys : text[k].t \in {"array", "string"}

\* C2, amended: an import is accepted if and only if the payload is a JSON
\* object in which plantTypes, plantings and harvests are present and none
\* of them is null, false, 0 or ""; an empty array is accepted, and
\* exportedAt plays no part.
C2_AcceptedIffTruthy ==
  lastOp.op = "importJSON" => (notice = Success <=> HasUsableValues(lastFile[1]))

\* A payload of three empty arrays and no exportedAt has just been accepted.
C2_Witness ==
  /\ lastOp.op = "importJSON"
  /\ notice = Success
  /\ lastFile[1].exportedAt.t = "undefined"
  /\ \A k \in Keys : lastFile[1][k] = JsArray(<<>>)

\* The last n entries of the save queue q.
LastSaves(q, n) == SubSeq(q, Len(q) - n + 1, Len(q))

\* C3: an accepted import makes each of the three collections exactly the
\* payload's list in one step, and the saves that step issues, one per key,
\* carry the payload's lists: no render and no save mixes payload and
\* pre-import collections.
C3_ImportReplacesAll ==
  [][(ImportStep /\ notice' = Success)
       => /\ plantTypes' = lastFile'[1].plantTypes.items
          /\ plantings' = lastFile'[1].plantings.items
          /\ harvests' = lastFile'[1].harvests.items
          /\ Len(pending') = Len(pending) + 3
          /\ SubSeq(pending', 1, Len(pending)) = pending
          /\ \A k \in Keys :
               \E i \in 1..3 :
                 LastSaves(pending', 3)[i] = [key |-> k, value |-> lastFile'[1][k].items]]_vars

\* Three empty lists have just been imported over the loaded data of the
\* earlier session, whose save is still queued.
C3_Witness ==
  /\ lastOp.op = "importJSON"
  /\ notice = Success
  /\ plantTypes = <<>> /\ plantings = <<>> /\ harvests = <<>>
  /\ \E i \in 1..Len(pending) : pending[i] = [key |-> "plantings", value |-> <<OldPlanting>>]

SavesOf(k) == SelectSeq(pending, LAMBDA e : e.key = k)

\* The value of the save of key k that was issued last: that of the newest
\* save in flight or, when none is in flight, the stored value.
LastIssued(k) ==
  IF SavesOf(k) # <<>> THEN <<SavesOf(k)[Len(SavesOf(k))].value>> ELSE store[k]

\* The step is a user event whose handler called the setter of key k.
Mutates(k) ==
  /\ ops' = ops + 1
  /\ \/ lastOp'.op = "importJSON" /\ notice' = Success
     \/ /\ k = "plantings"
        /\ \/ lastOp'.op \in {"deletePlanting", "toggleArchive"}
           \/ lastOp'.op = "addPlanting" /\ lastOp'.id # NoId
     \/ /\ k = "harvests"
        /\ \/ lastOp'.op = "deleteHarvest"
           \/ lastOp'.op = "logHarvest" /\ lastOp'.id # NoId
     \/ /\ k = "plantTypes"
        /\ \/ lastOp'.op \in {"updateType", "removeType"}
           \/ lastOp'.op \in {"addType", "resetToDefaults"} /\ lastOp'.id # NoId

\* C5: a step that mutates a collection adds, behind the saves in flight
\* (which it neither waits for nor removes), a save of that collection's key
\* carrying the new value; and in every state the save issued last for a
\* key carries the collection as it is in memory.
C5_SaveFollowsMutation ==
  /\ [](\A k \in Keys : LastIssued(k) = <<Collection(k)>>)
  /\ [][\A k \in Keys :
          Mutates(k)
            => /\ Len(pending') > Len(pending)
               /\ SubSeq(pending', 1, Len(pending)) = pending
               /\ \E i \in (Len(pending) + 1)..Len(pending') :
                    pending'[i] = [key |-> k, value |-> Collection(k)']]_vars

\* A planting was archived while two earlier saves of the plantings were
\* still in flight; the newest of the three carries the archived planting.
C5_Witness ==
  /\ lastOp.op = "toggleArchive"
  /\ Len(SavesOf("plantings")) = 3
  /\ plantings = <<[OldPlanting EXCEPT !.archived = TRUE]>>
  /\ SavesOf("plantings")[3].value = plantings
  /\ SavesOf("plantings")[2].value = <<OldPlanting>>

\* C6: a removeType step leaves the plantings and the harvests as they
\* were (the plantings of the removed type keep their plantTypeId and stay
\* in the registry), and phaseFor then returns null for each planting of
\* the removed type.
C6_RemoveTypeKeepsPlantings ==
  [][(ops' = ops + 1 /\ lastOp'.op = "removeType")
       => /\ UNCHANGED <<plantings, harvests>>
          /\ lastOp'.id \notin Ids(plantTypes')
          /\ \A i \in 1..Len(plantings') :
               plantings'[i].plantTypeId = lastOp'.id
                 => phaseAt(plantTypes', plantings'[i], today') = <<>>]_vars

\* The type of a planting has just been removed while other types remain:
\* the planting is still there, it has a harvest, and phaseFor returns null
\* for it.
C6_Witness ==
  /\ lastOp.op = "removeType"
  /\ plantTypes # <<>>
  /\ plantings # <<>>
  /\ plantings[1].plantTypeId = lastOp.id
  /\ phaseFor(plantings[1]) = <<>>

\* C7: a deletePlanting step removes the plantings that have the id and
\* keeps the others in their order; the harvests (those of the deleted
\* planting among them) and the catalogue are as they were.
C7_DeletePlantingOnly ==
  [][(ops' = ops + 1 /\ lastOp'.op = "deletePlanting")
       => /\ plantings' = SelectSeq(plantings, LAMBDA p : p.id # lastOp'.id)
          /\ Len(plantings') < Len(plantings)
          /\ UNCHANGED <<harvests, plantTypes>>
          /\ \A i \in 1..Len(harvests) :
               harvests[i].plantingId = lastOp'.id => harvests'[i] = harvests[i]]_vars

\* The planting of the earlier session has just been deleted; its harvest
\* is still in the ledger.
C7_Witness ==
  /\ lastOp = [op |-> "deletePlanting", id |-> OldPlanting.id]
  /\ plantings = <<>>
  /\ harvests = <<OldHarvest>>
  /\ OldHarvest.plantingId = OldPlanting.id

\* The step is addPlanting submitted with an empty plantTypeId or an empty
\* plantedAt.
InvalidPlanting ==
  \E d \in PlantedAtInputs :
    /\ newPlantingTypeId = NoId \/ d = NoDate
    /\ addPlanting(d)

\* The step is logHarvest run with no harvest target or with an amount that
\* is missing (0) or not positive.
InvalidHarvest ==
  \E a \in AmountInputs, u \in Units :
    /\ harvestTarget = <<>> \/ a <= 0
    /\ logHarvest(a, u, Day1)

\* C8: an invalid addPlanting or logHarvest leaves the three collections,
\* the saves in flight, the store and the id counter as they were and shows
\* no message; and a logHarvest step that changes the harvests puts one
\* entry with amount > 0 in front of them.
C8_InvalidSubmissionNoOp ==
  /\ [][(InvalidPlanting \/ InvalidHarvest)
          => UNCHANGED <<plantTypes, plantings, harvests, pending, store,
                         nextId, notice, newPlantingTypeId, harvestTarget>>]_vars
  /\ [][(ops' = ops + 1 /\ lastOp'.op = "logHarvest" /\ harvests' # harvests)
          => /\ Len(harvests') = Len(harvests) + 1
             /\ Tail(harvests') = harvests
             /\ Head(harvests').amount > 0]_vars

\* addPlanting has just been submitted with an empty plantTypeId (the
\* catalogue is empty) and the registry still holds the one planting it
\* held before.
C8_Witness ==
  /\ lastOp = [op |-> "addPlanting", id |-> NoId]
  /\ newPlantingTypeId = NoId
  /\ plantTypes = <<>>
  /\ Len(plantings) = 1
  /\ harvests = <<>>

\* C9 as stated: in every reachable state, imports included, no two
\* entities share an id within a collection or across the collections.
C9_UniqueIds == DistinctIds(plantTypes, plantings, harvests)

\* C9, amended: no two entities share an id, within a collection or across
\* the three, in every state reached by add, delete, archive, harvest-log,
\* catalogue add, edit and remove, reset, load and import operations in
\* which no accepted import brought a payload that repeats an id.
C9_UniqueIdsUnlessImported ==
  ~importedRepeatedIds => DistinctIds(plantTypes, plantings, harvests)

\* A harvest has just been logged next to the loaded one, over the loaded
\* catalogue and registry, with no import of repeated ids before.
C9_Witness ==
  /\ ~importedRepeatedIds
  /\ lastOp.op = "logHarvest"
  /\ lastOp.id # NoId
  /\ Len(harvests) = 2
  /\ harvests[1].id = lastOp.id
  /\ harvests[2] = OldHarvest
  /\ plantings = <<OldPlanting>>
  /\ plantTypes = <<OldType>>

\* The percentage is a number from 0 to 100.
InRange(pct) == ~pct.nan /\ 0 <= pct.n /\ pct.n <= 100 * pct.d

\* C10: for every planting whose plant type resolves, on every date from
\* the planting date on and for every timing value the catalogue inputs
\* take, germinationPct, growthPct and harvestPct of phaseFor are numbers in
\* the range 0 to 100.
C10_PctInRange ==
  \A i \in 1..Len(plantings) :
    phaseFor(plantings[i]) # <<>>
      => /\ InRange(phaseFor(plantings[i])[1].germinationPct)
         /\ InRange(phaseFor(plantings[i])[1].growthPct)
         /\ InRange(phaseFor(plantings[i])[1].harvestPct)

\* The percentage is the number 0.
IsZero(pct) == ~pct.nan /\ pct.n = 0

\* C11: for every planting whose elapsed days are 0 and whose plant type
\* resolves, phaseFor returns germinationPct = 0, growthPct = 0,
\* harvestPct = 0 and done = false.
C11_ZeroElapsedAllZero ==
  \A i \in 1..Len(plantings) :
    (phaseFor(plantings[i]) # <<>> /\ phaseFor(plantings[i])[1].elapsed = 0)
      => /\ IsZero(phaseFor(plantings[i])[1].germinationPct)
         /\ IsZero(phaseFor(plantings[i])[1].growthPct)
         /\ IsZero(phaseFor(plantings[i])[1].harvestPct)
         /\ ~phaseFor(plantings[i])[1].done

RECURSIVE SumOf(_)
\* The sum, as a real number, of a sequence of Numbers.
SumOf(numbers) ==
  IF numbers = <<>> THEN 0 ELSE numbers[1] + SumOf(Tail(numbers))

Amounts(subset) == [i \in 1..Len(subset) |-> subset[i].amount]
Totals(entries) == [i \in 1..Len(entries) |-> entries[i].total]

\* The lists the reports are computed from: the ledger and its unit subsets.
Subsets == {harvests} \cup {harvestsByUnit(u) : u \in Units}

\* monthlyTotals(subset) has one entry per month key of the subset's dates,
\* in strictly ascending key order.
MonthsAscending(subset) ==
  LET out == monthlyTotals(subset)
  IN  /\ {out[i].month : i \in 1..Len(out)}
           = {monthKey(subset[i].date) : i \in 1..Len(subset)}
      /\ \A i, j \in 1..Len(out) : i < j => out[i].month < out[j].month

\* No addition over the subset rounds: the amounts are not negative and
\* their sum has at most SigBits significant bits.
SumsAreExact(subset) ==
  /\ \A i \in 1..Len(subset) : subset[i].amount >= 0
  /\ SumOf(Amounts(subset)) < 2^SigBits

\* C12 as stated: monthlyTotals returns one entry per distinct month key,
\* in strictly ascending key order, and the totals sum exactly to the sum
\* of the amounts of the input harvests.
C12_MonthlyTotalsExact ==
  \A subset \in Subsets :
    /\ MonthsAscending(subset)
    /\ SumOf(Totals(monthlyTotals(subset))) = SumOf(Amounts(subset))

\* C12, amended: monthlyTotals returns one entry per distinct month key, in
\* strictly ascending key order; the totals sum exactly to the sum of the
\* amounts whenever no addition of amounts rounds.
C12_MonthlyTotalsExactUnlessRounded ==
  \A subset \in Subsets :
    /\ MonthsAscending(subset)
    /\ SumsAreExact(subset)
         => SumOf(Totals(monthlyTotals(subset))) = SumOf(Amounts(subset))

\* A harvest of February has just been logged in front of one of January:
\* the report lists January first, and no sum rounds.
C12_Witness ==
  /\ lastOp.op = "logHarvest"
  /\ Len(harvests) = 2
  /\ monthKey(harvests[1].date) = 2
  /\ monthKey(harvests[2].date) = 1
  /\ SumsAreExact(harvests)
  /\ monthlyTotals(harvests) = << [month |-> 1, total |-> harvests[2].amount],
                                  [month |-> 2, total |-> harvests[1].amount] >>

\* The entries are in descending order of total.
Descending(entries) ==
  \A i, j \in 1..Len(entries) : i < j => entries[i].total >= entries[j].total

\* The harvests of the subset whose planting is in the registry.
Resolved(subset) ==
  SelectSeq(subset, LAMBDA h : h.plantingId \in Ids(plantings))

\* C13 as stated: in every reachable state and for the ledger and each of
\* its unit subsets, totalsByPlantType returns entries in descending order
\* of total whose totals sum to the sum of the amounts of all harvests of
\* the subset.
C13_TotalsByTypeExact ==
  \A subset \in Subsets :
    /\ Descending(totalsByPlantType(subset))
    /\ SumOf(Totals(totalsByPlantType(subset))) = SumOf(Amounts(subset))

\* C13, amended: totalsByPlantType returns entries in descending order of
\* total, and their totals sum to the sum of the amounts of the harvests of
\* the subset whose planting is still in the registry (a harvest of a
\* deleted planting is skipped), exactly so whenever no addition of those
\* amounts rounds.
C13_TotalsByTypeOfResolved ==
  \A subset \in Subsets :
    /\ Descending(totalsByPlantType(subset))
    /\ SumsAreExact(Resolved(subset))
         => SumOf(Totals(totalsByPlantType(subset))) = SumOf(Amounts(Resolved(subset)))

\* A basil harvest has just been logged in front of a harvest of the
\* planting of the removed type and a harvest of a deleted planting: the
\* report lists "Unknown" before "Basil" and leaves the third harvest out.
C13_Witness ==
  /\ lastOp.op = "logHarvest"
  /\ Len(harvests) = 3
  /\ harvests[1].plantingId = BasilPlanting.id
  /\ harvests[2].plantingId = UnknownPlanting.id
  /\ harvests[3].plantingId \notin Ids(plantings)
  /\ totalsByPlantType(harvests)
       = << [name |-> "Unknown", total |-> 5], [name |-> "Basil", total |-> 1] >>

\* Comparisons of a percentage with 0 and 100; every comparison with NaN
\* is false.
Positive(pct)   == ~pct.nan /\ pct.n > 0
Below100(pct)   == ~pct.nan /\ pct.n < 100 * pct.d
IsHundred(pct)  == ~pct.nan /\ pct.n = 100 * pct.d

\* C14 as stated: for a planting of the registry there are timing values
\* the catalogue inputs take and a number of elapsed days for which phaseFor
\* returns growthPct > 0 while germinationPct is below 100.
C14_PhasesOverlap ==
  \E i \in 1..Len(plantings) :
    \E gmin \in GermValues, gmax \in GermValues, mat \in LengthValues,
       hw \in LengthValues, e \in 0..MaxElapsed :
      LET type == mkPlantType(plantings[i].plantTypeId, OldType.name,
                              gmin, gmax, mat, hw, "kg")
          ph   == phaseAt(<<type>>, plantings[i], plantings[i].plantedAt + e)[1]
      IN  Positive(ph.growthPct) /\ Below100(ph.germinationPct)

\* C14, amended: the phases follow one another: whenever phaseFor returns
\* growthPct > 0 germinationPct is 100, and whenever it returns
\* harvestPct > 0 growthPct is 100.
C14_PhasesInSequence ==
  \A i \in 1..Len(plantings) :
    phaseFor(plantings[i]) # <<>>
      => /\ Positive(phaseFor(plantings[i])[1].growthPct)
              => IsHundred(phaseFor(plantings[i])[1].germinationPct)
         /\ Positive(phaseFor(plantings[i])[1].harvestPct)
              => IsHundred(phaseFor(plantings[i])[1].growthPct)

\* A day after the planting, the growth bar of a type whose timing was just
\* edited is part way and its germination bar is full.
C14_Witness ==
  /\ lastOp.op = "updateType"
  /\ today > OldPlanting.plantedAt
  /\ plantings = <<OldPlanting>>
  /\ phaseFor(OldPlanting) # <<>>
  /\ Positive(phaseFor(OldPlanting)[1].growthPct)
  /\ Below100(phaseFor(OldPlanting)[1].growthPct)
  /\ IsHundred(phaseFor(OldPlanting)[1].germinationPct)

\* The ids of a collection, in its order.
IdSeq(arr) == [i \in 1..Len(arr) |-> arr[i].id]

\* The id was returned by uid() in this session for a planting or a harvest.
Minted(id) == id > NumDefaults /\ id < nextId

\* The entries of the collection that this session created are in reverse
\* order of creation (uid() returns increasing values in the model).
NewestFirst(arr) ==
  \A i, j \in 1..Len(arr) :
    (i < j /\ Minted(arr[i].id) /\ Minted(arr[j].id)) => arr[i].id > arr[j].id

\* The step is the user event `op`, and its handler called a setter.
Did(op) == ops' = ops + 1 /\ lastOp'.op = op /\ lastOp'.id # NoId

\* C15: addPlanting and logHarvest put the new entry in front of the
\* entries there were, in their order; deletePlanting, deleteHarvest and
\* toggleArchive keep the remaining entries in their order; so the entries
\* a session creates are listed newest first in each collection.
C15_NewestFirst ==
  /\ [](NewestFirst(plantings) /\ NewestFirst(harvests))
  /\ [][/\ Did("addPlanting")
             => /\ plantings' # <<>>
                /\ Head(plantings').id = lastOp'.id
                /\ Tail(plantings') = plantings
        /\ Did("logHarvest")
             => /\ harvests' # <<>>
                /\ Head(harvests').id = lastOp'.id
                /\ Tail(harvests') = harvests
        /\ Did("deletePlanting")
             => IdSeq(plantings') = SelectSeq(IdSeq(plantings), LAMBDA x : x # lastOp'.id)
        /\ Did("deleteHarvest")
             => IdSeq(harvests') = SelectSeq(IdSeq(harvests), LAMBDA x : x # lastOp'.id)
        /\ Did("toggleArchive")
             => IdSeq(plantings') = IdSeq(plantings)]_vars

\* A second planting has just been added: it is in front of the first one,
\* which is in front of the three stored plantings.
C15_Witness ==
  /\ lastOp.op = "addPlanting"
  /\ Len(plantings) = 5
  /\ plantings[1].id = lastOp.id
  /\ Minted(plantings[2].id)
  /\ plantings[2].id < plantings[1].id
  /\ SubSeq(plantings, 3, 5) = <<UnknownPlanting, BasilPlanting, OldPlanting>>

\* The harvests of the ledger that have the unit; the whole ledger for "any".
UnitSubset(ledger, unit) ==
  IF unit = "any" THEN ledger ELSE SelectSeq(ledger, LAMBDA h : h.unit = unit)

\* C16: a toggleArchive step flips the archived flag of the planting with
\* the id and changes no other field of it, no other planting, no plant
\* type and no harvest; monthlyTotals and totalsByPlantType of the ledger
\* and of its unit subsets return after the step what they returned before.
C16_ToggleArchiveOnly ==
  [][Did("toggleArchive")
       => /\ UNCHANGED <<plantTypes, harvests>>
          /\ Len(plantings') = Len(plantings)
          /\ \A i \in 1..Len(plantings) :
               plantings'[i] = IF plantings[i].id = lastOp'.id
                                 THEN [plantings[i] EXCEPT !.archived = ~plantings[i].archived]
                                 ELSE plantings[i]
          /\ \A u \in Units \cup {"any"} :
               /\ monthlyTotals(UnitSubset(harvests', u)) = monthlyTotals(UnitSubset(harvests, u))
               /\ totalsBy(plantTypes', plantings', UnitSubset(harvests', u))
                    = totalsBy(plantTypes, plantings, UnitSubset(harvests, u))]_vars

\* The tomato planting has just been archived, and its harvests are counted
\* under "Tomato" in the totals by plant type.
C16_Witness ==
  /\ lastOp = [op |-> "toggleArchive", id |-> OldPlanting.id]
  /\ plantings = <<UnknownPlanting, BasilPlanting, [OldPlanting EXCEPT !.archived = TRUE]>>
  /\ \E i \in 1..Len(harvests) : harvests[i].plantingId = OldPlanting.id
  /\ \E i \in 1..Len(totalsByPlantType(harvests)) :
       /\ totalsByPlantType(harvests)[i].name = OldType.name
       /\ totalsByPlantType(harvests)[i].total > 0

\* Startup has settled with no user event: the three loads have resolved
\* and every save has been applied.
Settled == ops = 0 /\ loadPending = {} /\ pending = <<>>

C18_NoMutationLostToLoad ==
  [][\A k \in Keys :
       (k \in loadPending /\ k \notin loadPending')
         => \A i \in 1..Len(Collection(k)) :
              Minted(Collection(k)[i].id)
                => /\ \E j \in 1..Len(Collection(k)') :
                        Collection(k)'[j] = Collection(k)[i]
                   /\ LastIssued(k)' = <<Collection(k)'>>]_vars

\* C19: the plantTypeId that an addPlanting step writes into the new
\* planting is the id of an entry the catalogue holds at that moment.
C19_AddedPlantingHasType ==
  [][Did("addPlanting")
       => /\ plantings' # <<>>
          /\ Head(plantings').id = lastOp'.id
          /\ Head(plantings').plantTypeId \in Ids(plantTypes)]_vars

====
